---- MODULE Spec2Model ----
(***************************************************************************)
(* Storage layer of the note-taking application: the three storage         *)
(* providers (BrowserStorage, LocalStorage, WebDAVStorage) and the         *)
(* StorageManager that wraps them with a fallback to browser storage.      *)
(*                                                                         *)
(* A JSON text is represented by the value JSON.parse gives for it, so     *)
(* JSON.stringify is the map to that value (a Date becomes a string) and   *)
(* JSON.parse is the identity on it.  A JSON object is a function from     *)
(* keys to values; a key `workspace_<id>` is the pair <<"workspace_", id>> *)
(* and a key without such a prefix (`workspaces`) is <<"", "workspaces">>. *)
(***************************************************************************)
EXTENDS Integers, Sequences, FiniteSets, TLC

VARIABLES
    config,      \* StorageManager.config
    provider,    \* StorageManager.provider: kind of the instance, and its directoryHandle
    browserDB,   \* the localforage store 'note-taking-app'/'workspace_data'
    localDir,    \* the files of the directory the user grants
    davServer,   \* the resources of the WebDAV server
    browserUp,   \* environment: the browser store answers
    localEnv,    \* environment: directory picker and file system
    davEnv,      \* environment: the WebDAV server answers
    now,         \* environment: the instant `new Date()` gives
    store,       \* useNotesStore: the state of the notes store, and its save in flight
    fallbackProvider, \* StorageManager.fallbackProvider
    last         \* the last call made and what it gave its caller

vars == <<config, provider, fallbackProvider, browserDB, localDir, davServer, browserUp, localEnv, davEnv, now, store, last>>

(***************************************************************************)
(* Bounds and input sets                                                   *)
(***************************************************************************)
NumContents == 2
Contents == 1..NumContents

WsIds == {"default", "other"}
PageIds == {"p1"}

Null == [null |-> TRUE]
NoError == [by |-> "none", msg |-> ""]
EmptyObject == [k \in {} |-> Null]

\* types.ts: Page; createdAt is a Date in memory
NewPage(id, c) ==
    [id |-> id, content |-> c, createdAt |-> [type |-> "Date", iso |-> "t0"], lastSync |-> "absent"]

\* types.ts: Workspace
NewWorkspace(id, pages) ==
    [id |-> id, name |-> "Notes", pages |-> pages, lastSync |-> "absent"]

Pages == {NewPage(id, c) : id \in PageIds, c \in Contents}
PageLists == {<<>>} \cup {<<p>> : p \in Pages}
Workspaces == {NewWorkspace(id, ps) : id \in WsIds, ps \in PageLists}
DefaultWorkspaces == {w \in Workspaces : w.id = "default"}

(***************************************************************************)
(* JSON.stringify followed by JSON.parse                                   *)
(***************************************************************************)
PageJSON(p) == [p EXCEPT !.createdAt = [type |-> "string", iso |-> @.iso]]

WorkspaceJSON(w) == [w EXCEPT !.pages = [i \in DOMAIN @ |-> PageJSON(@[i])]]

\* the value a store holds under key k, as JSON.stringify writes it
EntryJSON(k, v) ==
    IF k[1] \in {"workspace_", "workspace-"} THEN WorkspaceJSON(v)
    ELSE IF k[1] \in {"page_", "page-"} THEN PageJSON(v)
    ELSE v

\* a set as a sequence, in one fixed order (the order a store enumerates its keys)
RECURSIVE SetToSeq(_)
SetToSeq(S) ==
    IF S = {} THEN <<>>
    ELSE LET x == CHOOSE y \in S : TRUE IN <<x>> \o SetToSeq(S \ {x})

Range(s) == {s[i] : i \in DOMAIN s}

\* what a provider call gives: it returned (ok) a value or raised err; p and w
\* are the provider instance and the media after the call
Returned(v, p, w) == [ok |-> TRUE, val |-> v, err |-> NoError, p |-> p, w |-> w]
Raised(msg, p, w) == [ok |-> FALSE, val |-> Null, err |-> [by |-> "provider", msg |-> msg], p |-> p, w |-> w]

Void == [void |-> TRUE]

(***************************************************************************)
(* BrowserStorage                                                          *)
(***************************************************************************)
BrowserSetItem(db, k, v) == [x \in DOMAIN db \cup {k} |-> IF x = k THEN v ELSE db[x]]

BrowserRemoveItem(db, k) == [x \in DOMAIN db \ {k} |-> db[x]]

BrowserIsAvailable == browserUp

\* saveWorkspace that creates but never replaces: an existing entry is kept
BrowserSaveWorkspaceKeepsExisting(workspace, p, w) ==
    IF ~browserUp THEN Raised("Failed to save workspace: Error: store", p, w)
    ELSE IF <<"workspace_", workspace.id>> \in DOMAIN w.db THEN Returned(Void, p, w)
    ELSE Returned(Void, p, [w EXCEPT !.db = BrowserSetItem(@, <<"workspace_", workspace.id>>, workspace)])

BrowserSaveWorkspace(workspace, p, w) ==
    IF browserUp
    THEN Returned(Void, p, [w EXCEPT !.db = BrowserSetItem(@, <<"workspace_", workspace.id>>, workspace)])
    ELSE Raised("Failed to save workspace: Error: store", p, w)

BrowserGetWorkspace(workspaceId, p, w) ==
    IF browserUp /\ <<"workspace_", workspaceId>> \in DOMAIN w.db
    THEN Returned(w.db[<<"workspace_", workspaceId>>], p, w)
    ELSE Returned(Null, p, w)

BrowserSavePage(page, p, w) ==
    IF browserUp
    THEN Returned(Void, p, [w EXCEPT !.db = BrowserSetItem(@, <<"page_", page.id>>, page)])
    ELSE Raised("Failed to save page: Error: store", p, w)

BrowserGetPage(pageId, p, w) ==
    IF browserUp /\ <<"page_", pageId>> \in DOMAIN w.db
    THEN Returned(w.db[<<"page_", pageId>>], p, w)
    ELSE Returned(Null, p, w)

BrowserDeletePage(pageId, p, w) ==
    IF browserUp
    THEN Returned(Void, p, [w EXCEPT !.db = BrowserRemoveItem(@, <<"page_", pageId>>)])
    ELSE Raised("Failed to delete page: Error: store", p, w)

BrowserGetAllWorkspaces(p, w) ==
    IF browserUp
    THEN LET workspaceKeys == SetToSeq({k \in DOMAIN w.db : k[1] = "workspace_"})
         IN  Returned([i \in DOMAIN workspaceKeys |-> w.db[workspaceKeys[i]]], p, w)
    ELSE Returned(<<>>, p, w)

BrowserClearAll(p, w) ==
    IF browserUp
    THEN Returned(Void, p, [w EXCEPT !.db = EmptyObject])
    ELSE Raised("Failed to clear storage: Error: store", p, w)

BrowserExportData(p, w) ==
    IF browserUp
    THEN Returned([valid |-> TRUE, obj |-> [k \in DOMAIN w.db |-> EntryJSON(k, w.db[k])]], p, w)
    ELSE Raised("Failed to export data: Error: store", p, w)

BrowserImportData(jsonData, p, w) ==
    IF ~jsonData.valid THEN Raised("Failed to import data: SyntaxError", p, w)
    ELSE IF ~browserUp THEN Raised("Failed to import data: Error: store", p, w)
    ELSE Returned(Void, p, [w EXCEPT !.db = jsonData.obj])

(***************************************************************************)
(* LocalStorage                                                            *)
(***************************************************************************)
\* what a call on the directory handle does in the current environment
FileSystemFails == localEnv = "ioerr"

\* window.showDirectoryPicker() rejects, or is not a function
PickerFails == localEnv \in {"refuse", "noapi"}

LocalIsAvailable == localEnv # "noapi"

\* the provider instance after ensureDirectoryHandle, when it did not raise
LocalEnsureDirectoryHandle(p) == [p EXCEPT !.handle = TRUE]

LocalEnsureRaises(p) == ~p.handle /\ PickerFails

LocalWriteFile(dir, name, json) == [x \in DOMAIN dir \cup {name} |-> IF x = name THEN json ELSE dir[x]]

LocalRemoveEntry(dir, name) == [x \in DOMAIN dir \ {name} |-> dir[x]]

LocalSaveWorkspace(workspace, p, w) ==
    IF LocalEnsureRaises(p) THEN Raised("AbortError", p, w)
    ELSE IF FileSystemFails \/ p.stale THEN Raised("Failed to save workspace: file system", LocalEnsureDirectoryHandle(p), w)
    ELSE Returned(Void, LocalEnsureDirectoryHandle(p),
                  [w EXCEPT !.dir = LocalWriteFile(@, <<"workspace-", workspace.id>>, WorkspaceJSON(workspace))])

\* getWorkspace without its test for NotFoundError: a missing file is raised as a failure
LocalGetWorkspaceRethrows(workspaceId, p, w) ==
    IF LocalEnsureRaises(p) THEN Raised("AbortError", p, w)
    ELSE IF FileSystemFails \/ p.stale THEN Raised("Failed to get workspace: file system", LocalEnsureDirectoryHandle(p), w)
    ELSE IF <<"workspace-", workspaceId>> \in DOMAIN w.dir
         THEN Returned(w.dir[<<"workspace-", workspaceId>>], LocalEnsureDirectoryHandle(p), w)
         ELSE Raised("Failed to get workspace: NotFoundError", LocalEnsureDirectoryHandle(p), w)

LocalGetWorkspace(workspaceId, p, w) ==
    IF LocalEnsureRaises(p) THEN Raised("AbortError", p, w)
    ELSE IF FileSystemFails \/ p.stale THEN Raised("Failed to get workspace: file system", LocalEnsureDirectoryHandle(p), w)
    ELSE IF <<"workspace-", workspaceId>> \in DOMAIN w.dir
         THEN Returned(w.dir[<<"workspace-", workspaceId>>], LocalEnsureDirectoryHandle(p), w)
         ELSE Returned(Null, LocalEnsureDirectoryHandle(p), w)

LocalSavePage(page, p, w) ==
    IF LocalEnsureRaises(p) THEN Raised("AbortError", p, w)
    ELSE IF FileSystemFails \/ p.stale THEN Raised("Failed to save page: file system", LocalEnsureDirectoryHandle(p), w)
    ELSE Returned(Void, LocalEnsureDirectoryHandle(p),
                  [w EXCEPT !.dir = LocalWriteFile(@, <<"page-", page.id>>, PageJSON(page))])

LocalGetPage(pageId, p, w) ==
    IF LocalEnsureRaises(p) THEN Raised("AbortError", p, w)
    ELSE IF FileSystemFails \/ p.stale THEN Raised("Failed to get page: file system", LocalEnsureDirectoryHandle(p), w)
    ELSE IF <<"page-", pageId>> \in DOMAIN w.dir
         THEN Returned(w.dir[<<"page-", pageId>>], LocalEnsureDirectoryHandle(p), w)
         ELSE Returned(Null, LocalEnsureDirectoryHandle(p), w)

LocalDeletePage(pageId, p, w) ==
    IF LocalEnsureRaises(p) THEN Raised("AbortError", p, w)
    ELSE IF FileSystemFails \/ p.stale THEN Raised("Failed to delete page: file system", LocalEnsureDirectoryHandle(p), w)
    ELSE Returned(Void, LocalEnsureDirectoryHandle(p),
                  [w EXCEPT !.dir = LocalRemoveEntry(@, <<"page-", pageId>>)])

\* the parsed files of the directory whose name starts with prefix
LocalFilesWithPrefix(dir, prefix) ==
    LET names == SetToSeq({k \in DOMAIN dir : k[1] = prefix})
    IN  [i \in DOMAIN names |-> dir[names[i]]]

LocalGetAllWorkspaces(p, w) ==
    IF LocalEnsureRaises(p) THEN Raised("AbortError", p, w)
    ELSE IF FileSystemFails \/ p.stale THEN Raised("Failed to get workspaces: file system", LocalEnsureDirectoryHandle(p), w)
    ELSE Returned(LocalFilesWithPrefix(w.dir, "workspace-"), LocalEnsureDirectoryHandle(p), w)

LocalClearAll(p, w) ==
    IF LocalEnsureRaises(p) THEN Raised("AbortError", p, w)
    ELSE IF FileSystemFails \/ p.stale THEN Raised("Failed to clear all data: file system", LocalEnsureDirectoryHandle(p), w)
    ELSE Returned(Void, LocalEnsureDirectoryHandle(p),
                  [w EXCEPT !.dir = [k \in {x \in DOMAIN @ : x[1] \notin {"workspace-", "page-"}} |-> @[k]]])

LocalExportData(p, w) ==
    LET all == LocalGetAllWorkspaces(p, w)
    IN  IF ~all.ok THEN all
        ELSE Returned([valid |-> TRUE,
                       obj |-> (<<"", "workspaces">> :> all.val)
                               @@ (<<"", "pages">> :> LocalFilesWithPrefix(w.dir, "page-"))
                               @@ (<<"", "exportDate">> :> "t0")],
                      all.p, w)

\* the directory after writing, in order, one file per element of items
RECURSIVE LocalWriteAll(_, _, _)
LocalWriteAll(dir, prefix, items) ==
    IF items = <<>> THEN dir
    ELSE LocalWriteAll(LocalWriteFile(dir, <<prefix, Head(items).id>>, EntryJSON(<<prefix, "">>, Head(items))),
                       prefix, Tail(items))

\* data.workspaces / data.pages of a parsed import: the empty list when the property is missing
ImportList(obj, name) == IF <<"", name>> \in DOMAIN obj THEN obj[<<"", name>>] ELSE <<>>

LocalImportData(jsonData, p, w) ==
    IF ~jsonData.valid THEN Raised("Failed to import data: SyntaxError", p, w)
    ELSE LET workspaces == ImportList(jsonData.obj, "workspaces")
             pages == ImportList(jsonData.obj, "pages")
         IN  IF workspaces = <<>> /\ pages = <<>> THEN Returned(Void, p, w)
             ELSE IF LocalEnsureRaises(p) THEN Raised("Failed to import data: AbortError", p, w)
             ELSE IF FileSystemFails \/ p.stale THEN Raised("Failed to import data: file system", LocalEnsureDirectoryHandle(p), w)
             ELSE Returned(Void, LocalEnsureDirectoryHandle(p),
                           [w EXCEPT !.dir = LocalWriteAll(LocalWriteAll(@, "workspace-", workspaces), "page-", pages)])

(***************************************************************************)
(* WebDAVStorage                                                           *)
(***************************************************************************)
commonWorkspaceIds == <<"default", "main", "primary">>

Response(ok, status, data, dav) == [ok |-> ok, status |-> status, data |-> data, dav |-> dav]

\* one HTTP request and the server's answer (RFC 4918): a resource is the root,
\* /workspace-<ws>.json, the collection /pages/workspace-<ws>/ or
\* /pages/workspace-<ws>/page-<page>.json
makeRequest(dav, method, res, body) ==
    IF davEnv = "down" THEN Response(FALSE, 0, Null, dav)
    ELSE IF davEnv = "denied" THEN Response(FALSE, 401, Null, dav)
    ELSE CASE method = "PROPFIND" -> Response(TRUE, 207, Null, dav)
           [] method = "PUT" /\ res.kind = "workspace" ->
                Response(TRUE, 201, Null, [dav EXCEPT !.workspaces = (res.ws :> body) @@ @])
           [] method = "PUT" /\ res.kind = "page" ->
                IF res.ws \in dav.collections
                THEN Response(TRUE, 201, Null, [dav EXCEPT !.pages = (<<res.ws, res.page>> :> body) @@ @])
                ELSE Response(FALSE, 409, Null, dav)
           [] method = "GET" /\ res.kind = "workspace" ->
                IF res.ws \in DOMAIN dav.workspaces
                THEN Response(TRUE, 200, dav.workspaces[res.ws], dav)
                ELSE Response(FALSE, 404, Null, dav)
           [] method = "GET" /\ res.kind = "page" ->
                IF <<res.ws, res.page>> \in DOMAIN dav.pages
                THEN Response(TRUE, 200, dav.pages[<<res.ws, res.page>>], dav)
                ELSE Response(FALSE, 404, Null, dav)
           [] method = "MKCOL" ->
                IF ~dav.pagesRoot THEN Response(FALSE, 409, Null, dav)
                ELSE IF res.ws \in dav.collections THEN Response(FALSE, 405, Null, dav)
                ELSE Response(TRUE, 201, Null, [dav EXCEPT !.collections = @ \cup {res.ws}])
           [] method = "DELETE" /\ res.kind = "workspace" ->
                IF res.ws \in DOMAIN dav.workspaces
                THEN Response(TRUE, 204, Null,
                              [dav EXCEPT !.workspaces = [x \in DOMAIN @ \ {res.ws} |-> @[x]]])
                ELSE Response(FALSE, 404, Null, dav)
           [] method = "DELETE" /\ res.kind = "page" ->
                IF <<res.ws, res.page>> \in DOMAIN dav.pages
                THEN Response(TRUE, 204, Null,
                              [dav EXCEPT !.pages = [x \in DOMAIN @ \ {<<res.ws, res.page>>} |-> @[x]]])
                ELSE Response(FALSE, 404, Null, dav)
           [] method = "DELETE" /\ res.kind = "collection" ->
                IF res.ws \in dav.collections
                THEN Response(TRUE, 204, Null,
                              [dav EXCEPT !.collections = @ \ {res.ws},
                                          !.pages = [x \in {y \in DOMAIN @ : y[1] # res.ws} |-> @[x]]])
                ELSE Response(FALSE, 404, Null, dav)

RootRes == [kind |-> "root", ws |-> "", page |-> ""]
WorkspaceRes(id) == [kind |-> "workspace", ws |-> id, page |-> ""]
CollectionRes(id) == [kind |-> "collection", ws |-> id, page |-> ""]
PageRes(id, pageId) == [kind |-> "page", ws |-> id, page |-> pageId]

WebDAVTestConnection(p, w) == makeRequest(w.dav, "PROPFIND", RootRes, Null).ok

WebDAVIsAvailable(p, w) == WebDAVTestConnection(p, w)

WebDAVSaveWorkspace(workspace, p, w) ==
    LET workspaceData == [id |-> workspace.id, name |-> workspace.name,
                          pages |-> workspace.pages, lastSync |-> now]
        response == makeRequest(w.dav, "PUT", WorkspaceRes(workspace.id), WorkspaceJSON(workspaceData))
    IN  IF ~response.ok THEN Raised("Failed to save workspace: network", p, w)
        ELSE Returned(Void, p, [w EXCEPT !.dav = response.dav])

\* getWorkspace returning null for every response that is not ok
WebDAVGetWorkspaceCollapses(workspaceId, p, w) ==
    LET response == makeRequest(w.dav, "GET", WorkspaceRes(workspaceId), Null)
    IN  IF ~response.ok THEN Returned(Null, p, w) ELSE Returned(response.data, p, w)

WebDAVGetWorkspace(workspaceId, p, w) ==
    LET response == makeRequest(w.dav, "GET", WorkspaceRes(workspaceId), Null)
    IN  IF ~response.ok
        THEN IF response.status = 404 THEN Returned(Null, p, w)
             ELSE Raised("Failed to get workspace: network", p, w)
        ELSE Returned(response.data, p, w)

\* the loop of getAllWorkspaces over commonWorkspaceIds, from index i on
RECURSIVE WebDAVProbeWorkspaces(_, _, _)
WebDAVProbeWorkspaces(i, p, w) ==
    IF i > Len(commonWorkspaceIds) THEN Returned(<<>>, p, w)
    ELSE LET workspace == WebDAVGetWorkspace(commonWorkspaceIds[i], p, w)
         IN  IF ~workspace.ok THEN workspace
             ELSE LET rest == WebDAVProbeWorkspaces(i + 1, p, w)
                  IN  IF ~rest.ok THEN rest
                      ELSE IF workspace.val = Null THEN rest
                      ELSE Returned(<<workspace.val>> \o rest.val, p, w)

\* getAllWorkspaces reading the workspace names from the PROPFIND answer
WebDAVGetAllWorkspacesListsServer(p, w) ==
    LET response == makeRequest(w.dav, "PROPFIND", RootRes, Null)
        names == SetToSeq(DOMAIN w.dav.workspaces)
    IN  IF ~response.ok THEN Raised("Failed to list files: network", p, w)
        ELSE Returned([i \in DOMAIN names |-> w.dav.workspaces[names[i]]], p, w)

WebDAVGetAllWorkspaces(p, w) ==
    LET response == makeRequest(w.dav, "PROPFIND", RootRes, Null)
    IN  IF ~response.ok THEN Raised("Failed to list files: network", p, w)
        ELSE WebDAVProbeWorkspaces(1, p, w)

\* workspaces.find(w => w.pages.some(p => p.id === page.id)): its index, 0 when none
\* `workspaces.find(...)` taking the last workspace that embeds the page, not the first
FindWorkspaceOfPageLast(workspaces, pageId) ==
    LET hits == {i \in DOMAIN workspaces :
                    \E j \in DOMAIN workspaces[i].pages : workspaces[i].pages[j].id = pageId}
    IN  IF hits = {} THEN 0 ELSE CHOOSE i \in hits : \A j \in hits : j <= i

FindWorkspaceOfPage(workspaces, pageId) ==
    LET hits == {i \in DOMAIN workspaces :
                    \E j \in DOMAIN workspaces[i].pages : workspaces[i].pages[j].id = pageId}
    IN  IF hits = {} THEN 0 ELSE CHOOSE i \in hits : \A j \in hits : i <= j

\* savePage from what `await this.getAllWorkspaces()` gave
WebDAVSavePageIn(workspaces, page) ==
    IF ~workspaces.ok THEN workspaces
    ELSE LET p == workspaces.p
             w == workspaces.w
             found == FindWorkspaceOfPage(workspaces.val, page.id)
         IN  IF found = 0 THEN Raised("Workspace not found for page", p, w)
             ELSE LET workspace == workspaces.val[found]
                      pageData == [page EXCEPT !.lastSync = now]
                      mkcol == makeRequest(w.dav, "MKCOL", CollectionRes(workspace.id), Null)
                      response == makeRequest(mkcol.dav, "PUT", PageRes(workspace.id, page.id),
                                              PageJSON(pageData))
                  IN  IF ~response.ok
                      THEN Raised("Failed to save page: Unknown error", p, [w EXCEPT !.dav = mkcol.dav])
                      ELSE Returned(Void, p, [w EXCEPT !.dav = response.dav])

WebDAVSavePage(page, p, w) == WebDAVSavePageIn(WebDAVGetAllWorkspaces(p, w), page)

\* the first index from i on of a workspace under which request `method` for the page is answered ok; 0 when none
RECURSIVE FirstAnswering(_, _, _, _, _)
FirstAnswering(dav, method, workspaces, pageId, i) ==
    IF i > Len(workspaces) THEN 0
    ELSE IF makeRequest(dav, method, PageRes(workspaces[i].id, pageId), Null).ok THEN i
    ELSE FirstAnswering(dav, method, workspaces, pageId, i + 1)

\* getPage from what `await this.getAllWorkspaces()` gave
WebDAVGetPageIn(workspaces, pageId) ==
    IF ~workspaces.ok THEN workspaces
    ELSE LET p == workspaces.p
             w == workspaces.w
             i == FirstAnswering(w.dav, "GET", workspaces.val, pageId, 1)
         IN  IF i = 0 THEN Returned(Null, p, w)
             ELSE Returned(makeRequest(w.dav, "GET", PageRes(workspaces.val[i].id, pageId), Null).data, p, w)

WebDAVGetPage(pageId, p, w) == WebDAVGetPageIn(WebDAVGetAllWorkspaces(p, w), pageId)

\* deletePage from what `await this.getAllWorkspaces()` gave
WebDAVDeletePageIn(workspaces, pageId) ==
    IF ~workspaces.ok THEN workspaces
    ELSE LET p == workspaces.p
             w == workspaces.w
             i == FirstAnswering(w.dav, "DELETE", workspaces.val, pageId, 1)
         IN  IF i = 0 THEN Raised("Failed to delete page: Page not found", p, w)
             ELSE Returned(Void, p,
                           [w EXCEPT !.dav = makeRequest(@, "DELETE", PageRes(workspaces.val[i].id, pageId), Null).dav])

WebDAVDeletePage(pageId, p, w) == WebDAVDeletePageIn(WebDAVGetAllWorkspaces(p, w), pageId)

\* the loop of clearAll over the listed workspaces
RECURSIVE WebDAVDeleteEach(_, _)
WebDAVDeleteEach(dav, workspaces) ==
    IF workspaces = <<>> THEN dav
    ELSE LET first == makeRequest(dav, "DELETE", WorkspaceRes(Head(workspaces).id), Null).dav
             second == makeRequest(first, "DELETE", CollectionRes(Head(workspaces).id), Null).dav
         IN  WebDAVDeleteEach(second, Tail(workspaces))

\* clearAll from what `await this.getAllWorkspaces()` gave
WebDAVClearListed(workspaces) ==
    IF ~workspaces.ok THEN workspaces
    ELSE Returned(Void, workspaces.p, [workspaces.w EXCEPT !.dav = WebDAVDeleteEach(@, workspaces.val)])

WebDAVClearAll(p, w) == WebDAVClearListed(WebDAVGetAllWorkspaces(p, w))

\* the ids of the pages embedded in the listed workspaces
EmbeddedPageIds(workspaces) ==
    UNION {{workspaces[i].pages[j].id : j \in DOMAIN workspaces[i].pages} : i \in DOMAIN workspaces}

\* exportData from what `await this.getAllWorkspaces()` gave
WebDAVExportListed(workspaces) ==
    IF ~workspaces.ok THEN workspaces
    ELSE LET p == workspaces.p
             w == workspaces.w
             list == workspaces.val
             pageData == [id \in EmbeddedPageIds(list) |-> WebDAVGetPage(id, p, w).val]
             keys == {<<"workspace_", list[i].id>> : i \in DOMAIN list}
                        \cup {<<"page_", id>> : id \in {x \in DOMAIN pageData : pageData[x] # Null}}
             LastWithId(id) == CHOOSE i \in DOMAIN list :
                                  list[i].id = id /\ \A j \in DOMAIN list : list[j].id = id => j <= i
         IN  Returned([valid |-> TRUE,
                       obj |-> [k \in keys |-> IF k[1] = "workspace_" THEN list[LastWithId(k[2])]
                                               ELSE pageData[k[2]]]],
                      p, w)

WebDAVExportData(p, w) == WebDAVExportListed(WebDAVGetAllWorkspaces(p, w))

\* the values of the entries of a parsed import whose key starts with prefix, in entry order
ImportEntries(obj, prefix) ==
    LET keys == SetToSeq({k \in DOMAIN obj : k[1] = prefix})
    IN  [i \in DOMAIN keys |-> obj[keys[i]]]

\* `for (const workspace of workspaces) await this.saveWorkspace(workspace)`, entered
\* with the result r of the await before it: a raised r ends the import
RECURSIVE WebDAVSaveWorkspaces(_, _)
WebDAVSaveWorkspaces(workspaces, r) ==
    IF ~r.ok \/ workspaces = <<>> THEN r
    ELSE WebDAVSaveWorkspaces(Tail(workspaces), WebDAVSaveWorkspace(Head(workspaces), r.p, r.w))

\* `for (const page of pages) await this.savePage(page)`, entered with the result r of
\* the await before it
RECURSIVE WebDAVSavePages(_, _)
WebDAVSavePages(pages, r) ==
    IF ~r.ok \/ pages = <<>> THEN r
    ELSE WebDAVSavePages(Tail(pages), WebDAVSavePage(Head(pages), r.p, r.w))

\* importData clearing the server before it parses the text
WebDAVImportDataClearsFirst(jsonData, p, w) ==
    LET cleared == WebDAVClearAll(p, w)
    IN  IF ~jsonData.valid THEN Raised("SyntaxError", cleared.p, cleared.w)
        ELSE WebDAVSavePages(ImportEntries(jsonData.obj, "page_"),
                             WebDAVSaveWorkspaces(ImportEntries(jsonData.obj, "workspace_"), cleared))

WebDAVImportData(jsonData, p, w) ==
    IF ~jsonData.valid THEN Raised("SyntaxError", p, w)
    ELSE WebDAVSavePages(ImportEntries(jsonData.obj, "page_"),
                         WebDAVSaveWorkspaces(ImportEntries(jsonData.obj, "workspace_"),
                                              WebDAVClearAll(p, w)))

(***************************************************************************)
(* StorageProvider: the call of one operation on a provider instance       *)
(***************************************************************************)
Operations == {"saveWorkspace", "getWorkspace", "savePage", "getPage", "deletePage",
               "getAllWorkspaces", "clearAll", "exportData", "importData"}

Call(op, arg, p, w) ==
    CASE p.kind = "browser" ->
            (CASE op = "saveWorkspace" -> BrowserSaveWorkspace(arg, p, w)
              [] op = "getWorkspace" -> BrowserGetWorkspace(arg, p, w)
              [] op = "savePage" -> BrowserSavePage(arg, p, w)
              [] op = "getPage" -> BrowserGetPage(arg, p, w)
              [] op = "deletePage" -> BrowserDeletePage(arg, p, w)
              [] op = "getAllWorkspaces" -> BrowserGetAllWorkspaces(p, w)
              [] op = "clearAll" -> BrowserClearAll(p, w)
              [] op = "exportData" -> BrowserExportData(p, w)
              [] op = "importData" -> BrowserImportData(arg, p, w))
      [] p.kind = "local" ->
            (CASE op = "saveWorkspace" -> LocalSaveWorkspace(arg, p, w)
              [] op = "getWorkspace" -> LocalGetWorkspace(arg, p, w)
              [] op = "savePage" -> LocalSavePage(arg, p, w)
              [] op = "getPage" -> LocalGetPage(arg, p, w)
              [] op = "deletePage" -> LocalDeletePage(arg, p, w)
              [] op = "getAllWorkspaces" -> LocalGetAllWorkspaces(p, w)
              [] op = "clearAll" -> LocalClearAll(p, w)
              [] op = "exportData" -> LocalExportData(p, w)
              [] op = "importData" -> LocalImportData(arg, p, w))
      [] p.kind = "webdav" ->
            (CASE op = "saveWorkspace" -> WebDAVSaveWorkspace(arg, p, w)
              [] op = "getWorkspace" -> WebDAVGetWorkspace(arg, p, w)
              [] op = "savePage" -> WebDAVSavePage(arg, p, w)
              [] op = "getPage" -> WebDAVGetPage(arg, p, w)
              [] op = "deletePage" -> WebDAVDeletePage(arg, p, w)
              [] op = "getAllWorkspaces" -> WebDAVGetAllWorkspaces(p, w)
              [] op = "clearAll" -> WebDAVClearAll(p, w)
              [] op = "exportData" -> WebDAVExportData(p, w)
              [] op = "importData" -> WebDAVImportData(arg, p, w))

IsAvailable(p, w) ==
    CASE p.kind = "browser" -> BrowserIsAvailable
      [] p.kind = "local" -> LocalIsAvailable
      [] p.kind = "webdav" -> WebDAVIsAvailable(p, w)

(***************************************************************************)
(* The boolean probes isAvailable and testConnection, as calls that return *)
(* a boolean or raise                                                      *)
(***************************************************************************)
\* `try { await this.storage.ready(); return true } catch { return false }`
BrowserIsAvailableCall(p, w) == IF browserUp THEN Returned(TRUE, p, w) ELSE Returned(FALSE, p, w)

BrowserTestConnection(p, w) == BrowserIsAvailableCall(p, w)

\* `typeof window !== 'undefined' && 'showDirectoryPicker' in window`
LocalIsAvailableCall(p, w) == Returned(localEnv # "noapi", p, w)

\* testConnection asking for the directory before its try block, as ensureDirectoryHandle does
LocalTestConnectionUnguarded(p, w) ==
    IF ~LocalIsAvailableCall(p, w).val THEN Returned(FALSE, p, w)
    ELSE IF LocalEnsureRaises(p) THEN Raised("AbortError", p, w)
    ELSE IF FileSystemFails \/ p.stale THEN Returned(FALSE, LocalEnsureDirectoryHandle(p), w)
    ELSE Returned(TRUE, LocalEnsureDirectoryHandle(p), w)

\* testConnection answering for the directory-selection capability alone, as isAvailable does
LocalTestConnectionOnlyCapability(p, w) == Returned(LocalIsAvailableCall(p, w).val, p, w)

\* the test file is created and removed again: the directory is as before
LocalTestConnection(p, w) ==
    IF ~LocalIsAvailableCall(p, w).val THEN Returned(FALSE, p, w)
    ELSE IF LocalEnsureRaises(p) THEN Returned(FALSE, p, w)
    ELSE IF FileSystemFails \/ p.stale THEN Returned(FALSE, LocalEnsureDirectoryHandle(p), w)
    ELSE Returned(TRUE, LocalEnsureDirectoryHandle(p), w)

\* `try { ... return response.ok } catch (error) { return false }`; makeRequest does not raise
WebDAVTestConnectionCall(p, w) == Returned(makeRequest(w.dav, "PROPFIND", RootRes, Null).ok, p, w)

WebDAVIsAvailableCall(p, w) == WebDAVTestConnectionCall(p, w)

Probes == {"isAvailable", "testConnection"}

\* the call of one probe on a provider instance
Probe(op, p, w) ==
    CASE p.kind = "browser" ->
            (CASE op = "isAvailable" -> BrowserIsAvailableCall(p, w)
               [] op = "testConnection" -> BrowserTestConnection(p, w))
      [] p.kind = "local" ->
            (CASE op = "isAvailable" -> LocalIsAvailableCall(p, w)
               [] op = "testConnection" -> LocalTestConnection(p, w))
      [] p.kind = "webdav" ->
            (CASE op = "isAvailable" -> WebDAVIsAvailableCall(p, w)
               [] op = "testConnection" -> WebDAVTestConnectionCall(p, w))

(***************************************************************************)
(* StorageManager                                                          *)
(***************************************************************************)
StorageConfig(type, localPath, webdavConfig) ==
    [type |-> type, localPath |-> localPath, webdavConfig |-> webdavConfig]

BrowserConfig == StorageConfig("browser", "absent", "absent")
LocalConfig == StorageConfig("local", "/notes", "absent")
WebDAVConfig == StorageConfig("webdav", "absent", "dav")

\* the configurations handed to the manager: the three complete ones, and three
\* that break the invariant of StorageConfig
Configs == {BrowserConfig, LocalConfig, WebDAVConfig,
            StorageConfig("local", "absent", "absent"),
            StorageConfig("webdav", "absent", "absent"),
            StorageConfig("cloud", "absent", "absent")}

\* a provider instance: handle says that directoryHandle is set, stale that the handle
\* it holds is lost (the grant was revoked, the directory removed)
NewProvider(kind) == [kind |-> kind, handle |-> FALSE, stale |-> FALSE]

\* createProvider without its checks of localPath and webdavConfig
createProviderUnchecked(cfg) ==
    CASE cfg.type = "webdav" -> [ok |-> TRUE, p |-> NewProvider("webdav"), msg |-> ""]
      [] cfg.type = "browser" -> [ok |-> TRUE, p |-> NewProvider("browser"), msg |-> ""]
      [] cfg.type = "local" -> [ok |-> TRUE, p |-> NewProvider("local"), msg |-> ""]
      [] OTHER -> [ok |-> FALSE, p |-> Null, msg |-> "Unsupported storage type"]

\* createProvider: the new instance, or the error it throws
createProvider(cfg) ==
    CASE cfg.type = "webdav" ->
            IF cfg.webdavConfig = "absent"
            THEN [ok |-> FALSE, p |-> Null, msg |-> "WebDAV config is required for WebDAV storage"]
            ELSE [ok |-> TRUE, p |-> NewProvider("webdav"), msg |-> ""]
      [] cfg.type = "browser" -> [ok |-> TRUE, p |-> NewProvider("browser"), msg |-> ""]
      [] cfg.type = "local" ->
            IF cfg.localPath = "absent"
            THEN [ok |-> FALSE, p |-> Null, msg |-> "Local path is required for local storage"]
            ELSE [ok |-> TRUE, p |-> NewProvider("local"), msg |-> ""]
      [] OTHER -> [ok |-> FALSE, p |-> Null, msg |-> "Unsupported storage type"]

\* the media as one record, for the provider operators
World == [db |-> browserDB, dir |-> localDir, dav |-> davServer]

\* one call the manager made on a provider, and whether it returned
Made(who, op, ok) == [who |-> who, op |-> op, ok |-> ok]

\* what a manager call gives its caller: calls lists the provider calls it made, in order
Outcome(ok, val, err, calls, p, w) ==
    [ok |-> ok, val |-> val, err |-> err, calls |-> calls, p |-> p, w |-> w]

\* the inner try/catch rethrowing `error` where it rethrows `fallbackError`
executeFallbackThrowsOriginal(primary, fallback, op) ==
    IF fallback.ok
    THEN Outcome(TRUE, fallback.val, NoError,
                 <<Made("active", op, FALSE), Made("fallback", op, TRUE)>>, primary.p, fallback.w)
    ELSE Outcome(FALSE, Null, [by |-> "active", msg |-> primary.err.msg],
                 <<Made("active", op, FALSE), Made("fallback", op, FALSE)>>, primary.p, fallback.w)

\* the inner try/catch returning nothing of what the fallback provider's call gave
executeFallbackDropsResult(primary, fallback, op) ==
    IF fallback.ok
    THEN Outcome(TRUE, Null, NoError,
                 <<Made("active", op, FALSE), Made("fallback", op, TRUE)>>, primary.p, fallback.w)
    ELSE Outcome(FALSE, Null, [by |-> "fallback", msg |-> fallback.err.msg],
                 <<Made("active", op, FALSE), Made("fallback", op, FALSE)>>, primary.p, fallback.w)

\* the inner try/catch of executeWithFallback, from the active provider's raised call
\* (primary) and the fallback provider's call (fallback)
executeFallback(primary, fallback, op) ==
    IF fallback.ok
    THEN Outcome(TRUE, fallback.val, NoError,
                 <<Made("active", op, FALSE), Made("fallback", op, TRUE)>>, primary.p, fallback.w)
    ELSE Outcome(FALSE, Null, [by |-> "fallback", msg |-> fallback.err.msg],
                 <<Made("active", op, FALSE), Made("fallback", op, FALSE)>>, primary.p, fallback.w)

\* the outer try/catch without its catch block: the active provider's error is rethrown
executePrimaryNoFallback(primary, op, arg, fb) ==
    IF primary.ok
    THEN Outcome(TRUE, primary.val, NoError, <<Made("active", op, TRUE)>>, primary.p, primary.w)
    ELSE Outcome(FALSE, Null, [by |-> "active", msg |-> primary.err.msg],
                 <<Made("active", op, FALSE)>>, primary.p, primary.w)

\* the outer try/catch attempting the active provider a second time before the fallback
executePrimaryRetries(primary, op, arg, fb) ==
    IF primary.ok
    THEN Outcome(TRUE, primary.val, NoError, <<Made("active", op, TRUE)>>, primary.p, primary.w)
    ELSE LET again == Call(op, arg, primary.p, primary.w)
         IN  IF again.ok
             THEN Outcome(TRUE, again.val, NoError,
                          <<Made("active", op, FALSE), Made("active", op, TRUE)>>, again.p, again.w)
             ELSE LET fallback == Call(op, arg, fb, again.w)
                      calls == <<Made("active", op, FALSE), Made("active", op, FALSE),
                                 Made("fallback", op, fallback.ok)>>
                  IN  IF fallback.ok
                      THEN Outcome(TRUE, fallback.val, NoError, calls, again.p, fallback.w)
                      ELSE Outcome(FALSE, Null, [by |-> "fallback", msg |-> fallback.err.msg],
                                   calls, again.p, fallback.w)

\* the outer try/catch of executeWithFallback, from the active provider's call (primary)
executePrimary(primary, op, arg, fb) ==
    IF primary.ok
    THEN Outcome(TRUE, primary.val, NoError, <<Made("active", op, TRUE)>>, primary.p, primary.w)
    ELSE executeFallback(primary, Call(op, arg, fb, primary.w), op)

executeWithFallback(op, arg, p, fb, w) == executePrimary(Call(op, arg, p, w), op, arg, fb)

Idle == [op |-> "none", arg |-> Null, ok |-> TRUE, val |-> Null, err |-> NoError, calls |-> <<>>]

Record(op, arg, out) ==
    [op |-> op, arg |-> arg, ok |-> out.ok, val |-> out.val, err |-> out.err, calls |-> out.calls]

\* one wrapped operation of the manager: saveWorkspace, getWorkspace, savePage, getPage,
\* deletePage, getAllWorkspaces, clearAll, exportData, importData
Wrapped(op, arg) ==
    \E out \in {executeWithFallback(op, arg, provider, fallbackProvider, World)} :
        /\ provider' = out.p
        /\ browserDB' = out.w.db
        /\ localDir' = out.w.dir
        /\ davServer' = out.w.dav
        /\ last' = Record(op, arg, out)
        /\ UNCHANGED <<config, fallbackProvider, browserUp, localEnv, davEnv, now, store>>

saveWorkspace(workspace) == Wrapped("saveWorkspace", workspace)
getWorkspace(workspaceId) == Wrapped("getWorkspace", workspaceId)
savePage(page) == Wrapped("savePage", page)
getPage(pageId) == Wrapped("getPage", pageId)
deletePage(pageId) == Wrapped("deletePage", pageId)
getAllWorkspaces == Wrapped("getAllWorkspaces", Null)
clearAll == Wrapped("clearAll", Null)
exportData == Wrapped("exportData", Null)
importData(jsonData) == Wrapped("importData", jsonData)

\* migrateData assigning this.config and this.provider before the import into the target
migrateImportedSwapsBefore(data, imported) ==
    LET calls == data.calls \o <<Made("target", "isAvailable", TRUE), Made("target", "importData", imported.ok)>>
    IN  IF ~imported.ok
        THEN Outcome(FALSE, [swap |-> TRUE], [by |-> "target", msg |-> imported.err.msg],
                     calls, imported.p, imported.w)
        ELSE Outcome(TRUE, [swap |-> TRUE], NoError, calls, imported.p, imported.w)

\* the end of migrateData, from what exportData gave (data) and what the target's
\* importData gave (imported): config and provider are assigned only after the import
migrateImported(data, imported) ==
    LET calls == data.calls \o <<Made("target", "isAvailable", TRUE), Made("target", "importData", imported.ok)>>
    IN  IF ~imported.ok
        THEN Outcome(FALSE, [swap |-> FALSE], [by |-> "target", msg |-> imported.err.msg],
                     calls, data.p, imported.w)
        ELSE Outcome(TRUE, [swap |-> TRUE], NoError, calls, imported.p, imported.w)

\* migrateData from what `await this.exportData()` gave
migrateExported(data, targetConfig) ==
    LET created == createProvider(targetConfig)
    IN  IF ~data.ok THEN [data EXCEPT !.val = [swap |-> FALSE]]
        ELSE IF ~created.ok
        THEN Outcome(FALSE, [swap |-> FALSE], [by |-> "manager", msg |-> created.msg], data.calls, data.p, data.w)
        ELSE IF ~IsAvailable(created.p, data.w)
        THEN Outcome(FALSE, [swap |-> FALSE], [by |-> "manager", msg |-> "Target storage provider is not available"],
                     data.calls \o <<Made("target", "isAvailable", FALSE)>>, data.p, data.w)
        ELSE migrateImported(data, Call("importData", data.val, created.p, data.w))

\* what migrateData gives, from the manager's state (p, fb) and the media w
migrate(targetConfig, p, fb, w) ==
    migrateExported(executeWithFallback("exportData", Null, p, fb, w), targetConfig)

migrateData(targetConfig) ==
    \E out \in {migrate(targetConfig, provider, fallbackProvider, World)} :
        /\ config' = IF out.val.swap THEN targetConfig ELSE config
        /\ provider' = out.p
        /\ browserDB' = out.w.db
        /\ localDir' = out.w.dir
        /\ davServer' = out.w.dav
        /\ last' = Record("migrateData", targetConfig, out)
        /\ UNCHANGED <<fallbackProvider, browserUp, localEnv, davEnv, now, store>>

\* the catch block of syncBetweenProviders rethrowing the error where it logs it
syncImportedRethrows(exported, imported) ==
    Outcome(imported.ok, [logged |-> NoError],
            IF imported.ok THEN NoError ELSE [by |-> "fallback", msg |-> imported.err.msg],
            <<Made("active", "exportData", TRUE), Made("fallback", "importData", imported.ok)>>,
            exported.p, imported.w)

\* the end of syncBetweenProviders, from what provider.exportData() gave (exported) and
\* what fallbackProvider.importData(primaryData) gave (imported): an error of the import
\* is logged, and the call returns
syncImported(exported, imported) ==
    Outcome(TRUE, [logged |-> IF imported.ok THEN NoError ELSE [by |-> "fallback", msg |-> imported.err.msg]],
            NoError,
            <<Made("active", "exportData", TRUE), Made("fallback", "importData", imported.ok)>>,
            exported.p, imported.w)

\* the try block of syncBetweenProviders from what `await this.provider.exportData()` gave
syncExported(exported, fb) ==
    IF ~exported.ok
    THEN Outcome(TRUE, [logged |-> [by |-> "active", msg |-> exported.err.msg]], NoError,
                 <<Made("active", "exportData", FALSE)>>, exported.p, exported.w)
    ELSE syncImported(exported, Call("importData", exported.val, fb, exported.w))

\* syncBetweenProviders without its test of this.config.type
syncUnguarded(cfg, p, fb, w) == syncExported(Call("exportData", Null, p, w), fb)

\* what syncBetweenProviders gives, from the manager's state (cfg, p, fb) and the media w
sync(cfg, p, fb, w) ==
    IF cfg.type = "browser" THEN Outcome(TRUE, [logged |-> NoError], NoError, <<>>, p, w)
    ELSE syncExported(Call("exportData", Null, p, w), fb)

syncBetweenProviders ==
    \E out \in {sync(config, provider, fallbackProvider, World)} :
        /\ provider' = out.p
        /\ browserDB' = out.w.db
        /\ localDir' = out.w.dir
        /\ davServer' = out.w.dav
        /\ last' = Record("syncBetweenProviders", Null, out)
        /\ UNCHANGED <<config, fallbackProvider, browserUp, localEnv, davEnv, now, store>>

\* updateConfig keeping the provider it replaces as the new fallback
updateConfigReplacesFallback(cfg) ==
    LET created == createProvider(cfg)
    IN  /\ config' = cfg
        /\ provider' = IF created.ok THEN created.p ELSE provider
        /\ fallbackProvider' = IF created.ok THEN provider ELSE fallbackProvider
        /\ last' = [Idle EXCEPT !.op = "updateConfig", !.arg = cfg, !.ok = created.ok,
                                !.err = IF created.ok THEN NoError ELSE [by |-> "manager", msg |-> created.msg]]
        /\ UNCHANGED <<browserDB, localDir, davServer, browserUp, localEnv, davEnv, now, store>>

updateConfig(cfg) ==
    LET created == createProvider(cfg)
    IN  /\ config' = cfg
        /\ provider' = IF created.ok THEN created.p ELSE provider
        /\ last' = [Idle EXCEPT !.op = "updateConfig", !.arg = cfg, !.ok = created.ok,
                                !.err = IF created.ok THEN NoError ELSE [by |-> "manager", msg |-> created.msg]]
        /\ UNCHANGED <<fallbackProvider, browserDB, localDir, davServer, browserUp, localEnv, davEnv, now, store>>

\* isAvailable and testConnection of the manager: `return this.provider.<probe>()`
Probed(op) ==
    \E r \in {Probe(op, provider, World)} :
        /\ provider' = r.p
        /\ last' = [op |-> op, arg |-> Null, ok |-> r.ok, val |-> r.val, err |-> r.err,
                    calls |-> <<Made("active", op, r.ok)>>]
        /\ UNCHANGED <<config, fallbackProvider, browserDB, localDir, davServer, browserUp, localEnv, davEnv, now, store>>

isAvailable == Probed("isAvailable")
testConnection == Probed("testConnection")

(***************************************************************************)
(* useNotesStore over the storage service, which hands every call to its   *)
(* StorageManager                                                          *)
(***************************************************************************)
\* createPage: the new page is appended; the page ids of the model allow one page
createPage(content) ==
    /\ Len(store.workspace.pages) < Cardinality(PageIds)
    /\ store' = [store EXCEPT !.workspace.pages = Append(@, NewPage("p1", content)),
                              !.unsavedChanges = TRUE]
    /\ last' = Idle
    /\ UNCHANGED <<config, provider, fallbackProvider, browserDB, localDir, davServer, browserUp, localEnv, davEnv, now>>

updatePageContent(pageId, content) ==
    /\ store' = [store EXCEPT !.workspace.pages =
                                  [i \in DOMAIN @ |-> IF @[i].id = pageId THEN [@[i] EXCEPT !.content = content] ELSE @[i]],
                              !.unsavedChanges = TRUE]
    /\ last' = Idle
    /\ UNCHANGED <<config, provider, fallbackProvider, browserDB, localDir, davServer, browserUp, localEnv, davEnv, now>>

\* saveToLocal up to its await: `const state = get()` and the call of saveWorkspace
saveToLocalReads ==
    /\ store.saving = Null
    /\ store' = [store EXCEPT !.saving = store.workspace]
    /\ last' = Idle
    /\ UNCHANGED <<config, provider, fallbackProvider, browserDB, localDir, davServer, browserUp, localEnv, davEnv, now>>

\* the store after the await of saveToLocal, from what storageService.saveWorkspace gave
saveToLocalSettled(out) ==
    [store EXCEPT !.saving = Null, !.handed = store.saving,
                  !.unsavedChanges = IF out.ok THEN FALSE ELSE @]

\* saveToLocal from its await on: the workspace it read is saved, then the set() or the catch
saveToLocalSaves ==
    /\ store.saving # Null
    /\ \E out \in {executeWithFallback("saveWorkspace", store.saving, provider, fallbackProvider, World)} :
          /\ provider' = out.p
          /\ browserDB' = out.w.db
          /\ localDir' = out.w.dir
          /\ davServer' = out.w.dav
          /\ store' = saveToLocalSettled(out)
          /\ last' = Record("saveToLocal", store.saving, out)
    /\ UNCHANGED <<config, fallbackProvider, browserUp, localEnv, davEnv, now>>

\* migrateStorage: storageService.configureStorage(config) is StorageManager.updateConfig
migrateStorage(cfg) ==
    LET created == createProvider(cfg)
    IN  /\ config' = cfg
        /\ provider' = IF created.ok THEN created.p ELSE provider
        /\ store' = IF created.ok THEN [store EXCEPT !.storageConfig = cfg, !.syncStatus = "success"]
                    ELSE [store EXCEPT !.syncStatus = "error"]
        /\ last' = [Idle EXCEPT !.op = "migrateStorage", !.arg = cfg, !.ok = created.ok,
                                !.err = IF created.ok THEN NoError ELSE [by |-> "manager", msg |-> created.msg]]
        /\ UNCHANGED <<fallbackProvider, browserDB, localDir, davServer, browserUp, localEnv, davEnv, now>>

\* new StorageManager(cfg): when the constructor throws there is no new manager
constructor(cfg) ==
    LET created == createProvider(cfg)
    IN  /\ config' = IF created.ok THEN cfg ELSE config
        /\ provider' = IF created.ok THEN created.p ELSE provider
        /\ fallbackProvider' = IF created.ok THEN NewProvider("browser") ELSE fallbackProvider
        /\ last' = [Idle EXCEPT !.op = "constructor", !.arg = cfg, !.ok = created.ok,
                                !.err = IF created.ok THEN NoError ELSE [by |-> "manager", msg |-> created.msg]]
        /\ UNCHANGED <<browserDB, localDir, davServer, browserUp, localEnv, davEnv, now, store>>

(***************************************************************************)
(* Environment                                                             *)
(***************************************************************************)
LocalEnvs == {"ok", "refuse", "ioerr", "noapi"}
DavEnvs == {"ok", "down"}

BrowserStoreChanges ==
    /\ browserUp' = ~browserUp
    /\ last' = Idle
    /\ UNCHANGED <<config, provider, fallbackProvider, browserDB, localDir, davServer, localEnv, davEnv, now, store>>

\* the directory handle the local provider holds is lost
HandleLost ==
    /\ provider.kind = "local" /\ provider.handle /\ ~provider.stale
    /\ provider' = [provider EXCEPT !.stale = TRUE]
    /\ last' = Idle
    /\ UNCHANGED <<config, fallbackProvider, browserDB, localDir, davServer, browserUp, localEnv, davEnv, now, store>>

LocalEnvChanges(envs) ==
    /\ \E e \in envs \ {localEnv} : localEnv' = e
    /\ last' = Idle
    /\ UNCHANGED <<config, provider, fallbackProvider, browserDB, localDir, davServer, browserUp, davEnv, now, store>>

\* the server changes between answering, being unreachable and refusing with an HTTP error status
DavEnvChangesTo(envs) ==
    /\ \E e \in envs \ {davEnv} : davEnv' = e
    /\ last' = Idle
    /\ UNCHANGED <<config, provider, fallbackProvider, browserDB, localDir, davServer, browserUp, localEnv, now, store>>

\* `new Date()` gives a later instant than it gave before
ClockTicks ==
    /\ now = "ts"
    /\ now' = "later"
    /\ UNCHANGED <<config, provider, fallbackProvider, browserDB, localDir, davServer, browserUp, localEnv, davEnv, store, last>>

\* a medium starts or stops failing between two calls of the manager
MediumTurns ==
    /\ \/ browserUp' = ~browserUp /\ UNCHANGED <<localEnv, davEnv>>
       \/ /\ provider.kind = "local"
          /\ \E e \in {"ok", "ioerr"} \ {localEnv} : localEnv' = e
          /\ UNCHANGED <<browserUp, davEnv>>
       \/ /\ provider.kind = "webdav"
          /\ \E e \in DavEnvs \ {davEnv} : davEnv' = e
          /\ UNCHANGED <<browserUp, localEnv>>
    /\ UNCHANGED <<config, provider, fallbackProvider, browserDB, localDir, davServer, now, store, last>>

DavEnvChanges ==
    /\ \E e \in DavEnvs \ {davEnv} : davEnv' = e
    /\ last' = Idle
    /\ UNCHANGED <<config, provider, fallbackProvider, browserDB, localDir, davServer, browserUp, localEnv, now, store>>

(***************************************************************************)
(* Specification of the manager's wrapped operations: a manager constructed *)
(* with one of the three complete configurations, its nine wrapped          *)
(* operations, and the environment of the two media it reaches              *)
(***************************************************************************)
InvalidJSON == [valid |-> FALSE, obj |-> EmptyObject]

ImportInputs ==
    LET page == PageJSON(NewPage("p1", 1))
        workspace == WorkspaceJSON(NewWorkspace("default", <<NewPage("p1", 1)>>))
    IN  {InvalidJSON,
         [valid |-> TRUE, obj |-> (<<"workspace_", "default">> :> workspace) @@ (<<"page_", "p1">> :> page)],
         [valid |-> TRUE, obj |-> (<<"", "workspaces">> :> <<workspace>>) @@ (<<"", "pages">> :> <<page>>)
                                  @@ (<<"", "exportDate">> :> "t0")]}

\* the initial state of the notes store: defaultWorkspace, nothing unsaved, no
\* saveToLocal in flight (saving), no workspace handed to the storage service yet (handed)
InitialStore ==
    [workspace |-> NewWorkspace("default", <<>>), unsavedChanges |-> FALSE, syncStatus |-> "idle",
     storageConfig |-> BrowserConfig, saving |-> Null, handed |-> Null]

EmptyServer(pagesRoot) ==
    [workspaces |-> EmptyObject, pages |-> EmptyObject, collections |-> {}, pagesRoot |-> pagesRoot]

Init ==
    /\ config \in {BrowserConfig, LocalConfig, WebDAVConfig}
    /\ provider = createProvider(config).p
    /\ fallbackProvider = NewProvider("browser")
    /\ browserDB = EmptyObject
    /\ localDir = EmptyObject
    /\ davServer \in {EmptyServer(b) : b \in BOOLEAN}
    /\ browserUp = TRUE
    /\ localEnv = "ok"
    /\ davEnv = "ok"
    /\ now = "ts"
    /\ store = InitialStore
    /\ last = Idle

Next ==
    \/ \E workspace \in DefaultWorkspaces : saveWorkspace(workspace)
    \/ \E workspaceId \in WsIds : getWorkspace(workspaceId)
    \/ \E page \in Pages : savePage(page)
    \/ \E pageId \in PageIds : getPage(pageId)
    \/ \E pageId \in PageIds : deletePage(pageId)
    \/ getAllWorkspaces
    \/ clearAll
    \/ exportData
    \/ \E jsonData \in ImportInputs : importData(jsonData)
    \/ BrowserStoreChanges
    \/ provider.kind = "local" /\ LocalEnvChanges({"ok", "refuse", "ioerr"})
    \/ provider.kind = "webdav" /\ DavEnvChanges

Spec == Init /\ [][Next]_vars

(***************************************************************************)
(* Properties of the fallback wrapper                                      *)
(***************************************************************************)
\* the arguments the specification hands to operation op
Arguments(op) ==
    CASE op = "saveWorkspace" -> DefaultWorkspaces
      [] op = "getWorkspace" -> WsIds
      [] op = "savePage" -> Pages
      [] op \in {"getPage", "deletePage"} -> PageIds
      [] op = "importData" -> ImportInputs
      [] OTHER -> {Null}

\* the active provider raises on every saveWorkspace and every getWorkspace
ActiveAlwaysFails ==
    /\ \A workspace \in Workspaces : ~Call("saveWorkspace", workspace, provider, World).ok
    /\ \A workspaceId \in WsIds : ~Call("getWorkspace", workspaceId, provider, World).ok

\* the fallback provider accepts every saveWorkspace
FallbackAccepts == \A workspace \in Workspaces : Call("saveWorkspace", workspace, fallbackProvider, World).ok

\* C1: when the active provider fails on every call and the fallback accepts writes,
\* saveWorkspace(w) through the manager returns, and getWorkspace(w.id) through the
\* manager then returns w
C1_SaveFallsBackAndIsRead ==
    (ActiveAlwaysFails /\ FallbackAccepts) =>
        \A workspace \in Workspaces :
            LET saved == executeWithFallback("saveWorkspace", workspace, provider, fallbackProvider, World)
                read == executeWithFallback("getWorkspace", workspace.id, saved.p, fallbackProvider, saved.w)
            IN  saved.ok /\ read.ok /\ read.val = workspace

\* a saveWorkspace was served by the fallback behind a failing active provider, and is read back
C1_Witness ==
    /\ last.op = "saveWorkspace" /\ last.ok
    /\ last.calls = <<Made("active", "saveWorkspace", FALSE), Made("fallback", "saveWorkspace", TRUE)>>
    /\ ActiveAlwaysFails /\ FallbackAccepts
    /\ executeWithFallback("getWorkspace", last.arg.id, provider, fallbackProvider, World).val = last.arg

\* C2: for every wrapped operation, when the active provider's call and the fallback
\* provider's call both raise, the caller gets the fallback provider's error
C2_FallbackErrorSurfaces ==
    /\ \A op \in Operations : \A arg \in Arguments(op) :
          LET primary == Call(op, arg, provider, World)
              fallback == Call(op, arg, fallbackProvider, primary.w)
              out == executeWithFallback(op, arg, provider, fallbackProvider, World)
          IN  (~primary.ok /\ ~fallback.ok) =>
                  ~out.ok /\ out.err.by = "fallback" /\ out.err.msg = fallback.err.msg
    /\ (last.op \in Operations /\ Len(last.calls) = 2 /\ ~last.calls[2].ok) =>
          ~last.ok /\ last.err.by = "fallback"

\* savePage raised through the manager after the WebDAV provider and the browser store both failed
C2_Witness ==
    /\ provider.kind = "webdav"
    /\ last.op = "savePage" /\ ~last.ok
    /\ last.calls = <<Made("active", "savePage", FALSE), Made("fallback", "savePage", FALSE)>>
    /\ last.err = [by |-> "fallback", msg |-> "Failed to save page: Error: store"]

\* C3: one wrapped operation calls the active provider exactly once, first, and the
\* fallback provider at most once, and only after the active provider's call raised
C3_OneShotFallback ==
    last.op \in Operations =>
        LET calls == last.calls
        IN  /\ Cardinality({i \in DOMAIN calls : calls[i].who = "active"}) = 1
            /\ Cardinality({i \in DOMAIN calls : calls[i].who = "fallback"}) <= 1
            /\ calls[1].who = "active"
            /\ \A i \in DOMAIN calls : calls[i].who = "fallback" => i = 2 /\ ~calls[1].ok
            /\ \A i \in DOMAIN calls : calls[i].who \in {"active", "fallback"} /\ calls[i].op = last.op

\* getAllWorkspaces was served by the fallback after the one failed call of the active provider
C3_Witness ==
    /\ last.op = "getAllWorkspaces" /\ last.ok
    /\ last.calls = <<Made("active", "getAllWorkspaces", FALSE), Made("fallback", "getAllWorkspaces", TRUE)>>

(***************************************************************************)
(* Specification of one provider on its own: each operation of the         *)
(* StorageProvider contract called on the instance, and the environment of *)
(* its medium                                                              *)
(***************************************************************************)
Direct(op, arg) ==
    \E r \in {Call(op, arg, provider, World)} :
        /\ provider' = r.p
        /\ browserDB' = r.w.db
        /\ localDir' = r.w.dir
        /\ davServer' = r.w.dav
        /\ last' = [op |-> op, arg |-> arg, ok |-> r.ok, val |-> r.val, err |-> r.err,
                    calls |-> <<Made("provider", op, r.ok)>>]
        /\ UNCHANGED <<config, fallbackProvider, browserUp, localEnv, davEnv, now, store>>

ProviderSaveWorkspace(workspace) == Direct("saveWorkspace", workspace)
ProviderGetWorkspace(workspaceId) == Direct("getWorkspace", workspaceId)
ProviderSavePage(page) == Direct("savePage", page)
ProviderGetPage(pageId) == Direct("getPage", pageId)
ProviderDeletePage(pageId) == Direct("deletePage", pageId)
ProviderGetAllWorkspaces == Direct("getAllWorkspaces", Null)
ProviderClearAll == Direct("clearAll", Null)
ProviderExportData == Direct("exportData", Null)
ProviderImportData(jsonData) == Direct("importData", jsonData)

NextProvider ==
    \/ \E workspace \in Workspaces : ProviderSaveWorkspace(workspace)
    \/ \E workspaceId \in WsIds : ProviderGetWorkspace(workspaceId)
    \/ \E page \in Pages : ProviderSavePage(page)
    \/ \E pageId \in PageIds : ProviderGetPage(pageId)
    \/ \E pageId \in PageIds : ProviderDeletePage(pageId)
    \/ ProviderGetAllWorkspaces
    \/ ProviderClearAll
    \/ ProviderExportData
    \/ \E jsonData \in ImportInputs : ProviderImportData(jsonData)
    \/ provider.kind = "browser" /\ BrowserStoreChanges
    \/ provider.kind = "local" /\ LocalEnvChanges(LocalEnvs)
    \/ provider.kind = "webdav" /\ DavEnvChanges

SpecProvider == Init /\ [][NextProvider]_vars

(***************************************************************************)
(* Properties of the providers                                             *)
(***************************************************************************)
\* the medium of the provider answers: the store is ready, a directory is or can be
\* granted and its files can be used, the server answers
MediumReachable ==
    CASE provider.kind = "browser" -> browserUp
      [] provider.kind = "local" -> ~FileSystemFails /\ ~provider.stale /\ (provider.handle \/ ~PickerFails)
      [] provider.kind = "webdav" -> davEnv = "ok"

\* the medium of the provider holds a workspace resource, a page resource, for the id
WorkspaceStored(id) ==
    CASE provider.kind = "browser" -> <<"workspace_", id>> \in DOMAIN browserDB
      [] provider.kind = "local" -> <<"workspace-", id>> \in DOMAIN localDir
      [] provider.kind = "webdav" -> id \in DOMAIN davServer.workspaces

PageStored(id) ==
    CASE provider.kind = "browser" -> <<"page_", id>> \in DOMAIN browserDB
      [] provider.kind = "local" -> <<"page-", id>> \in DOMAIN localDir
      [] provider.kind = "webdav" -> \E k \in DOMAIN davServer.pages : k[2] = id

\* C7: on each provider kind, savePage(p) followed by getPage(p.id) returns a value equal to p
C7_SavePageRoundTrip ==
    (last.op = "savePage" /\ MediumReachable) =>
        /\ last.ok
        /\ Call("getPage", last.arg.id, provider, World).val = last.arg

\* C8: on each provider kind, deletePage(id) called again after a deletePage(id), or
\* for an id without a stored page, returns normally
C8_DeletePageIdempotent ==
    (last.op = "deletePage" /\ MediumReachable) =>
        /\ ~PageStored(last.arg) => last.ok
        /\ Call("deletePage", last.arg, provider, World).ok

\* C9: on each provider kind with a reachable medium, getWorkspace(id) and getPage(id)
\* for an id under which nothing is stored return null and do not raise
C9_GetAbsentIsNull ==
    MediumReachable =>
        /\ \A id \in WsIds : ~WorkspaceStored(id) =>
              LET r == Call("getWorkspace", id, provider, World) IN r.ok /\ r.val = Null
        /\ \A id \in PageIds : ~PageStored(id) =>
              LET r == Call("getPage", id, provider, World) IN r.ok /\ r.val = Null
        /\ (last.op \in {"getWorkspace", "getPage"} /\ ~WorkspaceStored(last.arg) /\ ~PageStored(last.arg)) =>
              last.ok /\ last.val = Null

\* the local provider was asked for a workspace that has no file, beside a file that exists
C9_Witness ==
    /\ provider.kind = "local" /\ MediumReachable
    /\ last.op = "getWorkspace" /\ last.ok /\ last.val = Null
    /\ ~WorkspaceStored(last.arg)
    /\ DOMAIN localDir # {}

\* what getWorkspace and getPage give for every id, on the provider instance p over the media w
Retrievable(p, w) ==
    [workspaces |-> [id \in WsIds |-> Call("getWorkspace", id, p, w).val],
     pages |-> [id \in PageIds |-> Call("getPage", id, p, w).val]]

\* the saves and deletes of the provider contract
Mutations ==
    {<<"saveWorkspace", workspace>> : workspace \in Workspaces}
        \cup {<<"savePage", page>> : page \in Pages}
        \cup {<<"deletePage", id>> : id \in PageIds}

\* what the provider and the media are after one save or delete that follows r
After(r) == {Call(m[1], m[2], r.p, r.w) : m \in Mutations}

\* C12: on each provider kind with a reachable medium, an export taken in a state S and
\* imported after one or two later saves and deletes restores S: importData returns, and
\* getWorkspace and getPage give for every id what they gave in S
C12_ImportRestoresExport ==
    MediumReachable =>
        LET exported == Call("exportData", Null, provider, World)
        IN  exported.ok =>
                \A first \in After(exported) : \A later \in {first} \cup After(first) :
                    LET imported == Call("importData", exported.val, later.p, later.w)
                    IN  /\ imported.ok
                        /\ Retrievable(imported.p, imported.w) = Retrievable(exported.p, exported.w)

\* what follows r on the same provider instance: the result of the operation op
Then(op, arg, r) == Call(op, arg, r.p, r.w)

\* C13: on each provider kind, after a clearAll() that returns, getWorkspace(id) and
\* getPage(id) return null for every id that had a stored resource, and
\* getAllWorkspaces() returns the empty sequence
C13_ClearAllRemovesEverything ==
    LET cleared == Call("clearAll", Null, provider, World)
    IN  cleared.ok =>
            /\ \A id \in {x \in WsIds : WorkspaceStored(x)} :
                  LET r == Then("getWorkspace", id, cleared) IN r.ok /\ r.val = Null
            /\ \A id \in {x \in PageIds : PageStored(x)} :
                  LET r == Then("getPage", id, cleared) IN r.ok /\ r.val = Null
            /\ LET r == Then("getAllWorkspaces", Null, cleared) IN r.ok /\ r.val = <<>>

\* C10: on the WebDAV provider every workspace getAllWorkspaces returns has an id among
\* default, main, primary; a workspace stored under another id is not listed, yet
\* getWorkspace returns it
C10_OnlyCommonIdsListed ==
    (provider.kind = "webdav" /\ davEnv = "ok") =>
        LET all == Call("getAllWorkspaces", Null, provider, World)
        IN  /\ all.ok
            /\ \A i \in DOMAIN all.val : all.val[i].id \in {"default", "main", "primary"}
            /\ \A id \in DOMAIN davServer.workspaces \ {"default", "main", "primary"} :
                  /\ \A i \in DOMAIN all.val : all.val[i].id # id
                  /\ Call("getWorkspace", id, provider, World).val = davServer.workspaces[id]
                  /\ davServer.workspaces[id].id = id

\* workspace `other` was saved on a server that also holds `default`: only `default` is listed
C10_Witness ==
    /\ provider.kind = "webdav" /\ davEnv = "ok"
    /\ last.op = "saveWorkspace" /\ last.ok /\ last.arg.id = "other"
    /\ "default" \in DOMAIN davServer.workspaces
    /\ Len(Call("getAllWorkspaces", Null, provider, World).val) = 1
    /\ Call("getWorkspace", "other", provider, World).val # Null

(***************************************************************************)
(* Specification of migration: migrateData between the three kinds, over   *)
(* the data one saved workspace gives, on a server whose page collections  *)
(* play no part                                                            *)
(***************************************************************************)
MigratedWorkspace == NewWorkspace("default", <<NewPage("p1", 1)>>)

InitMigrate == Init /\ ~davServer.pagesRoot

NextMigrate ==
    \/ saveWorkspace(MigratedWorkspace)
    \/ \E cfg \in Configs : migrateData(cfg)
    \/ BrowserStoreChanges
    \/ LocalEnvChanges({"ok", "refuse", "noapi"})
    \/ DavEnvChanges

SpecMigrate == InitMigrate /\ [][NextMigrate]_vars

(***************************************************************************)
(* Specification of configuration: construction and updateConfig with      *)
(* complete and incomplete configurations, around saves and reads          *)
(***************************************************************************)
NextConfig ==
    \/ \E cfg \in Configs : constructor(cfg)
    \/ \E cfg \in Configs : updateConfig(cfg)
    \/ saveWorkspace(MigratedWorkspace)
    \/ getWorkspace("default")

SpecConfig == InitMigrate /\ [][NextConfig]_vars

(***************************************************************************)
(* Properties of configuration and migration                               *)
(***************************************************************************)
\* a workspace by its id and the ids and contents of its pages
Content(workspace) ==
    [id |-> workspace.id,
     pages |-> [i \in DOMAIN workspace.pages |->
                   [id |-> workspace.pages[i].id, content |-> workspace.pages[i].content]]]

ContentSet(workspaces) == {Content(workspaces[i]) : i \in DOMAIN workspaces}

\* StorageConfig breaks its invariant: an unknown type, 'local' without localPath,
\* 'webdav' without webdavConfig
InvalidConfig(cfg) ==
    \/ cfg.type \notin {"browser", "local", "webdav"}
    \/ cfg.type = "local" /\ cfg.localPath = "absent"
    \/ cfg.type = "webdav" /\ cfg.webdavConfig = "absent"

\* C4: a step migrateData(B) that succeeds from an active provider A of another kind leaves
\* the manager listing the workspaces, by id and page contents, that A listed before it
C4_MigrationKeepsWorkspaces ==
    [][\A cfg \in Configs :
          (/\ migrateData(cfg)
           /\ last'.ok
           /\ cfg.type # provider.kind
           /\ Call("getAllWorkspaces", Null, provider, World).ok
           /\ MediumReachable)
          => ContentSet((executeWithFallback("getAllWorkspaces", Null, provider, fallbackProvider, World).val)')
                = ContentSet(Call("getAllWorkspaces", Null, provider, World).val)]_vars

\* C5: migrateData changes config and the active provider only when the target said it is
\* available and the import into it returned; when the target is unavailable it raises
\* 'Target storage provider is not available' without calling importData on the target;
\* whenever it raises, config and the active provider stay as they were
C5_MigrationSwapsLast ==
    [][\A cfg \in Configs : migrateData(cfg) =>
          LET target == createProvider(cfg)
              calls == last'.calls
              n == Len(calls)
          IN  /\ last'.ok =>
                    /\ n >= 3
                    /\ calls[n - 1] = Made("target", "isAvailable", TRUE)
                    /\ calls[n] = Made("target", "importData", TRUE)
                    /\ config' = cfg /\ provider'.kind = cfg.type
              /\ ~last'.ok =>
                    /\ config' = config
                    /\ provider'.kind = provider.kind
                    /\ provider.handle => provider'.handle
              /\ (last'.ok \/ config' # config \/ provider'.kind # provider.kind) =>
                    target.ok /\ IsAvailable(target.p, World') /\ calls[n] = Made("target", "importData", TRUE)
              /\ (target.ok /\ ~IsAvailable(target.p, World) /\ calls[n].who = "target") =>
                    /\ ~last'.ok
                    /\ last'.err = [by |-> "manager", msg |-> "Target storage provider is not available"]
                    /\ \A i \in DOMAIN calls : calls[i] # Made("target", "importData", TRUE)
                                            /\ calls[i] # Made("target", "importData", FALSE)
                    /\ <<browserDB', localDir', davServer'>> = <<browserDB, localDir, davServer>>]_vars

\* a migration from a local directory to a new local provider raised in the import, after
\* the target said it is available: the manager keeps the instance that holds the handle
C5_Witness ==
    /\ last.op = "migrateData" /\ ~last.ok
    /\ last.err.by = "target"
    /\ last.arg = LocalConfig
    /\ config = LocalConfig /\ provider = [NewProvider("local") EXCEPT !.handle = TRUE]
    /\ last.calls[Len(last.calls)] = Made("target", "importData", FALSE)

\* C6: the constructor and updateConfig, given a configuration that breaks the invariant of
\* StorageConfig, raise a configuration error, having called no provider and changed no stored data
C6_InvalidConfigFailsFast ==
    [][\A cfg \in Configs : ((updateConfig(cfg) \/ constructor(cfg)) /\ InvalidConfig(cfg)) =>
          /\ ~last'.ok
          /\ last'.err.by = "manager"
          /\ last'.err.msg \in {"WebDAV config is required for WebDAV storage",
                                "Local path is required for local storage",
                                "Unsupported storage type"}
          /\ last'.calls = <<>>
          /\ provider' = provider
          /\ <<browserDB', localDir', davServer'>> = <<browserDB, localDir, davServer>>]_vars

\* updateConfig was given type 'local' without a localPath and raised
C6_Witness ==
    /\ last.op = "updateConfig" /\ ~last.ok
    /\ last.arg = StorageConfig("local", "absent", "absent")
    /\ last.err = [by |-> "manager", msg |-> "Local path is required for local storage"]

(***************************************************************************)
(* Specification of the probes: isAvailable and testConnection of the      *)
(* manager over the three kinds of active provider, in every mode of the   *)
(* three media                                                             *)
(***************************************************************************)
NextProbe ==
    \/ isAvailable
    \/ testConnection
    \/ saveWorkspace(MigratedWorkspace)
    \/ \E workspaceId \in WsIds : getWorkspace(workspaceId)
    \/ BrowserStoreChanges
    \/ LocalEnvChanges(LocalEnvs)
    \/ DavEnvChangesTo({"ok", "down", "denied"})

SpecProbe == InitMigrate /\ [][NextProbe]_vars

\* the medium of the active provider is in a failure mode: the browser store is not
\* ready; the directory-selection capability is missing, the directory prompt is refused
\* while no handle is held, or the file system fails; the server is unreachable or
\* answers with an HTTP error status
MediumFails ==
    CASE provider.kind = "browser" -> ~browserUp
      [] provider.kind = "local" ->
            localEnv \in {"noapi", "ioerr"} \/ provider.stale \/ (localEnv = "refuse" /\ ~provider.handle)
      [] provider.kind = "webdav" -> davEnv \in {"down", "denied"}

\* C11 as claimed: isAvailable and testConnection never raise, and in every failure mode
\* of the backing medium both return false
C11_ProbesCollapseToFalse ==
    \A op \in Probes :
        LET r == Probe(op, provider, World)
        IN  r.ok /\ (MediumFails => r.val = FALSE)

\* C11 amended: isAvailable and testConnection never raise; testConnection returns false
\* in every failure mode of the backing medium; isAvailable returns false when the
\* browser store is not ready, the WebDAV request fails or the directory-selection
\* capability is missing, and on a local directory it answers only for that capability
C11_ProbesNeverRaise ==
    /\ \A op \in Probes : Probe(op, provider, World).ok
    /\ last.op \in Probes => last.ok /\ last.val \in BOOLEAN
    /\ MediumFails => Probe("testConnection", provider, World).val = FALSE
    /\ (MediumFails /\ provider.kind # "local") => Probe("isAvailable", provider, World).val = FALSE
    /\ provider.kind = "local" => Probe("isAvailable", provider, World).val = (localEnv # "noapi")

\* testConnection of the manager returned false on a local provider whose directory
\* prompt was refused, where isAvailable answers true
C11_Witness ==
    /\ last.op = "testConnection" /\ last.ok /\ last.val = FALSE
    /\ provider = NewProvider("local") /\ localEnv = "refuse"
    /\ Probe("isAvailable", provider, World).val = TRUE

\* C17: on a local provider, testConnection() returns false whenever the provider holds
\* no directory handle and the prompt gives none, and when it returns true the provider
\* holds a directory handle
C17_LocalTestNeedsHandle ==
    provider.kind = "local" =>
        LET r == Probe("testConnection", provider, World)
        IN  /\ (~provider.handle /\ PickerFails) => r.ok /\ r.val = FALSE
            /\ (r.ok /\ r.val = TRUE) => r.p.handle
            /\ (last.op = "testConnection" /\ last.val = TRUE) => provider.handle

\* testConnection returned true on a local provider that holds a handle, while the
\* prompt would give none
C17_Witness ==
    /\ provider.kind = "local" /\ provider.handle /\ PickerFails
    /\ last.op = "testConnection" /\ last.ok /\ last.val = TRUE

\* C18: whenever migrateData calls importData of the target provider, the data it hands
\* over came from exportData of the active provider: that call returned, and exportData
\* of the fallback provider was not called
C18_MigratesActiveExport ==
    (last.op = "migrateData" /\ \E i \in DOMAIN last.calls : last.calls[i].who = "target" /\ last.calls[i].op = "importData") =>
        /\ last.calls[1] = Made("active", "exportData", TRUE)
        /\ \A i \in DOMAIN last.calls : ~(last.calls[i].who = "fallback" /\ last.calls[i].op = "exportData")

(***************************************************************************)
(* Specification of reconfiguration: a manager of each kind, updateConfig  *)
(* and migrateData with complete and incomplete configurations, a saved    *)
(* workspace, the sync, and the media failing                              *)
(***************************************************************************)
NextReconfig ==
    \/ \E cfg \in Configs : updateConfig(cfg)
    \/ \E cfg \in Configs : migrateData(cfg)
    \/ saveWorkspace(MigratedWorkspace)
    \/ syncBetweenProviders
    \/ BrowserStoreChanges
    \/ LocalEnvChanges({"ok", "noapi"})
    \/ DavEnvChanges

SpecReconfig == InitMigrate /\ [][NextReconfig]_vars

\* one call of updateConfig or of migrateData
Reconfigures == \E cfg \in Configs : updateConfig(cfg) \/ migrateData(cfg)

\* C20: in every state the kind of the active provider is getConfig().type, and a call
\* of updateConfig or migrateData that raises leaves the config and the kind of the
\* active provider as they were
C20_ProviderMatchesConfig ==
    /\ [](provider.kind = config.type)
    /\ [][(Reconfigures /\ ~last'.ok) => (config' = config /\ provider'.kind = provider.kind)]_vars

(***************************************************************************)
(* Specification of saveWorkspace and its retry: a provider of each kind,  *)
(* saves and reads of workspaces, the clock and the media changing between *)
(* two calls                                                               *)
(***************************************************************************)
NextSave ==
    \/ \E workspace \in Workspaces : ProviderSaveWorkspace(workspace)
    \/ \E workspaceId \in WsIds : ProviderGetWorkspace(workspaceId)
    \/ ClockTicks
    \/ provider.kind = "browser" /\ BrowserStoreChanges
    \/ provider.kind = "local" /\ LocalEnvChanges(LocalEnvs)
    \/ provider.kind = "webdav" /\ DavEnvChanges

SpecSave == Init /\ [][NextSave]_vars

\* the resource the medium of the provider holds for the workspace id
StoredWorkspace(id) ==
    CASE provider.kind = "browser" -> browserDB[<<"workspace_", id>>]
      [] provider.kind = "local" -> localDir[<<"workspace-", id>>]
      [] provider.kind = "webdav" -> davServer.workspaces[id]

\* the stored resource for the id of workspace holds workspace: its id, its name and
\* its pages as JSON writes them, and nothing else but the lastSync stamp
HoldsWorkspace(workspace) ==
    /\ WorkspaceStored(workspace.id)
    /\ WorkspaceJSON([StoredWorkspace(workspace.id) EXCEPT !.lastSync = "absent"]) = WorkspaceJSON(workspace)

\* the last call saved a workspace and no other call was made since
JustSaved == last.op = "saveWorkspace" /\ last.ok

\* C14 as claimed: on each provider kind, after saveWorkspace(w) the stored resource for
\* w.id holds w and nothing of an earlier workspace, and a second saveWorkspace(w) that
\* returns leaves the provider and its medium exactly as the first left them
C14_SaveTwiceSameState ==
    JustSaved =>
        /\ HoldsWorkspace(last.arg)
        /\ LET again == Call("saveWorkspace", last.arg, provider, World)
           IN  again.ok => again.p = provider /\ again.w = World

\* C14: on each provider kind, after saveWorkspace(w) the stored resource for w.id holds
\* w and nothing of an earlier workspace, and a second saveWorkspace(w) that returns
\* leaves the provider and its medium as the first left them, but for the lastSync stamp
\* of the WebDAV resource, which becomes the instant of the second save
C14_SaveTwiceSameStateButStamp ==
    JustSaved =>
        /\ HoldsWorkspace(last.arg)
        /\ LET again == Call("saveWorkspace", last.arg, provider, World)
           IN  again.ok =>
                   /\ again.p = provider
                   /\ again.w = IF provider.kind = "webdav"
                                THEN [World EXCEPT !.dav.workspaces[last.arg.id].lastSync = now]
                                ELSE World

\* the WebDAV provider saved a workspace with a page, the clock went on, and the
\* server still answers a retry of the save
C14_Witness ==
    /\ JustSaved /\ provider.kind = "webdav" /\ davEnv = "ok"
    /\ last.arg.pages # <<>>
    /\ now = "later" /\ StoredWorkspace(last.arg.id).lastSync = "ts"

(***************************************************************************)
(* Specification of syncBetweenProviders: a manager of each kind whose     *)
(* configuration is updated to the browser and to an unsupported type,     *)
(* workspaces saved through it, the sync, and the media failing            *)
(***************************************************************************)
NextSync ==
    \/ \E workspace \in DefaultWorkspaces : saveWorkspace(workspace)
    \/ syncBetweenProviders
    \/ \E cfg \in {BrowserConfig, StorageConfig("cloud", "absent", "absent")} : updateConfig(cfg)
    \/ BrowserStoreChanges
    \/ provider.kind = "local" /\ LocalEnvChanges({"ok", "ioerr"})
    \/ provider.kind = "webdav" /\ DavEnvChanges

SpecSync == InitMigrate /\ [][NextSync]_vars

\* the last call was syncBetweenProviders and no other call was made since
JustSynced == last.op = "syncBetweenProviders"

\* C15: syncBetweenProviders() returns to its caller also when the export of the active
\* provider or the import into the fallback provider raises; it then made no further call
C15_SyncNeverRaises ==
    JustSynced =>
        /\ last.ok /\ last.err = NoError
        /\ \A i \in DOMAIN last.calls : ~last.calls[i].ok => i = Len(last.calls)

\* a sync whose export returned and whose import into the browser store raised
C15_Witness ==
    /\ JustSynced /\ last.ok
    /\ last.calls = <<Made("active", "exportData", TRUE), Made("fallback", "importData", FALSE)>>

\* C16: with config.type = 'browser', syncBetweenProviders() calls no operation of the
\* active or of the fallback provider and leaves the providers and all stored data as
\* they were
C16_SyncIsNoOpOnBrowser ==
    [][(config.type = "browser" /\ syncBetweenProviders) =>
          /\ last'.calls = <<>> /\ last'.ok
          /\ UNCHANGED <<config, provider, fallbackProvider, browserDB, localDir, davServer>>]_vars

\* a sync was called on a manager of type browser over a store that holds a workspace
\* with a page
C16_Witness ==
    /\ JustSynced /\ config.type = "browser" /\ provider.kind = "browser"
    /\ \E id \in WsIds : WorkspaceStored(id) /\ StoredWorkspace(id).pages # <<>>

\* C19: after a syncBetweenProviders() that logged no failure on a manager whose active
\* provider is local or WebDAV, each workspace getAllWorkspaces() of the active provider
\* returns is returned by getWorkspace(id) of the fallback provider with equal content
C19_FallbackHoldsBackup ==
    (JustSynced /\ last.val.logged = NoError /\ provider.kind \in {"local", "webdav"}) =>
        LET all == Call("getAllWorkspaces", Null, provider, World)
        IN  all.ok =>
                \A i \in DOMAIN all.val :
                    LET r == Call("getWorkspace", all.val[i].id, fallbackProvider, World)
                    IN  r.ok /\ r.val # Null /\ Content(r.val) = Content(all.val[i])

\* C21: the fallback provider of a manager is a browser provider in every state, and no
\* step of updateConfig, migrateData, syncBetweenProviders or a wrapped operation
\* assigns it
C21_FallbackIsPermanent ==
    /\ [](fallbackProvider = NewProvider("browser"))
    /\ [][fallbackProvider' = fallbackProvider]_vars

\* the manager was moved to the WebDAV provider by updateConfig while the server is down,
\* and its fallback is the browser provider
C21_Witness ==
    /\ last.op = "updateConfig" /\ last.ok
    /\ provider.kind = "webdav" /\ davEnv = "down"
    /\ fallbackProvider.kind = "browser"

\* C22: on the local and the WebDAV provider getWorkspace(id) raises whenever the medium
\* fails (file system error, refused prompt, unreachable server, HTTP error status other
\* than 404), and returns null only when the medium answers and holds nothing for id
C22_NullOnlyForNotFound ==
    provider.kind \in {"local", "webdav"} =>
        /\ \A id \in WsIds :
              LET r == Call("getWorkspace", id, provider, World)
              IN  /\ ~MediumReachable => ~r.ok
                  /\ (r.ok /\ r.val = Null) => (MediumReachable /\ ~WorkspaceStored(id))
        /\ (last.op = "getWorkspace" /\ ~MediumReachable) => ~last.calls[1].ok /\ Len(last.calls) = 2

\* the manager asked a WebDAV server that answers 401 for a workspace: the provider
\* raised and the fallback provider was asked
C22_Witness ==
    /\ provider.kind = "webdav" /\ davEnv = "denied"
    /\ last.op = "getWorkspace"
    /\ last.calls = <<Made("active", "getWorkspace", FALSE), Made("fallback", "getWorkspace", TRUE)>>

\* the workspaces getAllWorkspaces() of the WebDAV provider lists on the current server
ListedWorkspaces == WebDAVGetAllWorkspaces(provider, World).val

\* C23: on an answering WebDAV server, savePage(p) for a page that a listed workspace w
\* embeds returns, whether the collection /pages/workspace-<w.id>/ exists already or no
\* page collection exists yet, and leaves that collection and the page resource in it
C23_SavePageCreatesCollection ==
    (provider.kind = "webdav" /\ davEnv = "ok") =>
        \A page \in Pages :
            LET found == FindWorkspaceOfPage(ListedWorkspaces, page.id)
                r == Call("savePage", page, provider, World)
            IN  found # 0 =>
                    /\ r.ok
                    /\ ListedWorkspaces[found].id \in r.w.dav.collections
                    /\ <<ListedWorkspaces[found].id, page.id>> \in DOMAIN r.w.dav.pages

(***************************************************************************)
(* Specification of the page operations: a provider of each kind, two      *)
(* workspaces under ids that getAllWorkspaces of the WebDAV provider       *)
(* probes, which may embed the same page, and saves, reads and deletes of  *)
(* pages                                                                   *)
(***************************************************************************)
CommonIds == {"default", "main"}
CommonWorkspaces == {NewWorkspace(id, ps) : id \in CommonIds, ps \in PageLists}

NextPages ==
    \/ \E workspace \in CommonWorkspaces : ProviderSaveWorkspace(workspace)
    \/ \E page \in Pages : ProviderSavePage(page)
    \/ \E pageId \in PageIds : ProviderGetPage(pageId)
    \/ \E pageId \in PageIds : ProviderDeletePage(pageId)

SpecPages == Init /\ [][NextPages]_vars

\* the place of a workspace id in the probe order of getAllWorkspaces
ProbeOrder(id) == CHOOSE i \in DOMAIN commonWorkspaceIds : commonWorkspaceIds[i] = id

\* the probed ids whose stored workspace embeds the page id
Embedding(pageId) ==
    {id \in DOMAIN davServer.workspaces \cap Range(commonWorkspaceIds) :
        \E j \in DOMAIN davServer.workspaces[id].pages : davServer.workspaces[id].pages[j].id = pageId}

\* the first of them in the probe order
FirstEmbedding(pageId) ==
    CHOOSE id \in Embedding(pageId) : \A other \in Embedding(pageId) : ProbeOrder(id) <= ProbeOrder(other)

\* C24: on an answering WebDAV server, savePage(p) changes no resource but the page
\* resource of p.id under the first workspace, in the order default, main, primary, whose
\* stored page list contains p.id, and the collection of that workspace; when there is
\* no such workspace it raises 'Workspace not found for page' and the server is unchanged
C24_SavePageUnderFirstOwner ==
    (provider.kind = "webdav" /\ davEnv = "ok") =>
        \A page \in Pages :
            LET r == Call("savePage", page, provider, World)
            IN  IF Embedding(page.id) = {}
                THEN ~r.ok /\ r.err.msg = "Workspace not found for page" /\ r.w = World
                ELSE LET key == <<FirstEmbedding(page.id), page.id>>
                     IN  /\ r.w.dav.workspaces = davServer.workspaces
                         /\ r.w.dav.collections \subseteq davServer.collections \cup {key[1]}
                         /\ DOMAIN r.w.dav.pages \subseteq DOMAIN davServer.pages \cup {key}
                         /\ \A k \in DOMAIN davServer.pages \ {key} :
                               k \in DOMAIN r.w.dav.pages /\ r.w.dav.pages[k] = davServer.pages[k]
                         /\ r.ok => key \in DOMAIN r.w.dav.pages /\ r.w.dav.pages[key].content = page.content

\* savePage returned on a WebDAV server where default and main both embed the page: the
\* page resource lies under default and not under main
C24_Witness ==
    /\ provider.kind = "webdav" /\ last.op = "savePage" /\ last.ok
    /\ Embedding(last.arg.id) = {"default", "main"}
    /\ <<"default", last.arg.id>> \in DOMAIN davServer.pages
    /\ <<"main", last.arg.id>> \notin DOMAIN davServer.pages

\* C28: on each provider kind, after a deletePage(id) that returns, getPage(id) returns
\* null, also when more than one workspace embeds the page id
C28_DeletedPageIsGone ==
    \A id \in PageIds :
        LET deleted == Call("deletePage", id, provider, World)
            r == Then("getPage", id, deleted)
        IN  deleted.ok => r.ok /\ r.val = Null

(***************************************************************************)
(* Specification of the directory handle of the local provider: a provider *)
(* of each kind that is asked to save and to read workspaces again and     *)
(* again, the directory prompt being refused or not, and the granted       *)
(* handle getting lost                                                     *)
(***************************************************************************)
NextHandle ==
    \/ \E workspace \in DefaultWorkspaces : ProviderSaveWorkspace(workspace)
    \/ \E workspaceId \in WsIds : ProviderGetWorkspace(workspaceId)
    \/ HandleLost
    \/ provider.kind = "browser" /\ BrowserStoreChanges
    \/ provider.kind = "local" /\ LocalEnvChanges({"ok", "refuse"})
    \/ provider.kind = "webdav" /\ DavEnvChanges

\* the application goes on calling the provider
SpecHandle ==
    Init /\ [][NextHandle]_vars /\ WF_vars(\E workspaceId \in WsIds : ProviderGetWorkspace(workspaceId))

\* C25: once an operation of the local provider has failed on a lost directory handle,
\* a later operation no longer runs on that handle: the provider has dropped it and
\* prompts again
C25_RepromptsAfterLoss ==
    (provider.kind = "local" /\ provider.stale /\ ~last.ok) ~> ~provider.stale

(***************************************************************************)
(* Specification of the notes store: the store of the application over a   *)
(* manager that starts with browser storage, edits of the workspace,       *)
(* saveToLocal in two steps around its await, migrateStorage, and the      *)
(* browser store failing                                                   *)
(***************************************************************************)
InitStore == InitMigrate /\ config = BrowserConfig

NextStore ==
    \/ \E content \in Contents : createPage(content)
    \/ \E pageId \in PageIds, content \in Contents : updatePageContent(pageId, content)
    \/ saveToLocalReads
    \/ saveToLocalSaves
    \/ \E cfg \in Configs : migrateStorage(cfg)
    \/ BrowserStoreChanges

SpecStore == InitStore /\ [][NextStore]_vars

\* what getWorkspace(id) of the storage service gives in the state before a step, and after it
ServedBefore(id) == executeWithFallback("getWorkspace", id, provider, fallbackProvider, World)
ServedAfter(id) == executeWithFallback("getWorkspace", id, provider', fallbackProvider', World')

\* C26: a migrateStorage(config) that ends with syncStatus 'success' leaves every
\* workspace the storage service returned before it returned, with equal content, after it
C26_MigrateStorageMovesData ==
    [][\A cfg \in Configs :
          (migrateStorage(cfg) /\ store'.syncStatus = "success") =>
              \A id \in WsIds :
                  (ServedBefore(id).ok /\ ServedBefore(id).val # Null) =>
                      /\ ServedAfter(id).ok /\ ServedAfter(id).val # Null
                      /\ Content(ServedAfter(id).val) = Content(ServedBefore(id).val)]_vars

\* C30: whenever unsavedChanges is false after a saveToLocal completed, the workspace
\* that saveToLocal handed to the storage service is the workspace in memory, also when
\* an edit ran between its read of the state and its end; and a saveToLocal whose
\* storage call raises leaves unsavedChanges as it was
C30_SavedMeansStored ==
    /\ []((~store.unsavedChanges /\ store.handed # Null) => store.handed = store.workspace)
    /\ [][(saveToLocalSaves /\ ~last'.ok) => store'.unsavedChanges = store.unsavedChanges]_vars

(***************************************************************************)
(* Specification of reads after writes through the manager: a manager of   *)
(* each kind, saves and reads of workspaces, and the media failing and     *)
(* recovering between the calls                                            *)
(***************************************************************************)
NextReadWrite ==
    \/ \E workspace \in DefaultWorkspaces : saveWorkspace(workspace)
    \/ \E workspaceId \in WsIds : getWorkspace(workspaceId)
    \/ MediumTurns

SpecReadWrite == InitMigrate /\ [][NextReadWrite]_vars

\* the last call of the manager was a saveWorkspace that returned: no call was made since
SavedThroughManager == last.op = "saveWorkspace" /\ last.ok

\* what manager.getWorkspace gives now for the id of the workspace saved last
ReadBack == executeWithFallback("getWorkspace", last.arg.id, provider, fallbackProvider, World)

\* the provider that accepted the last save is the one that answers a read now, from a
\* medium it reaches: the active provider, or the fallback provider when the save fell
\* back and the read falls back too
SameProviderAnswers ==
    IF last.calls[1].ok THEN MediumReachable
    ELSE ~Call("getWorkspace", last.arg.id, provider, World).ok /\ browserUp

C29_InvalidImportRaisesAndKeepsData ==
    LET active == Call("importData", InvalidJSON, provider, World)
        fallback == Call("importData", InvalidJSON, fallbackProvider, World)
        through == executeWithFallback("importData", InvalidJSON, provider, fallbackProvider, World)
    IN  /\ ~active.ok /\ active.w = World
        /\ ~fallback.ok /\ fallback.w = World
        /\ ~through.ok /\ through.w = World
        /\ (last.op = "importData" /\ last.arg = InvalidJSON) =>
               /\ ~last.ok
               /\ last.calls = <<Made("active", "importData", FALSE), Made("fallback", "importData", FALSE)>>

\* an import of invalid JSON was raised through a WebDAV manager whose server and
\* whose browser store both hold a workspace, and both still hold it
C29_Witness ==
    /\ last.op = "importData" /\ last.arg = InvalidJSON /\ ~last.ok
    /\ provider.kind = "webdav" /\ davEnv = "ok" /\ browserUp
    /\ davServer.workspaces # EmptyObject
    /\ browserDB # EmptyObject
====
